---- MODULE Spec2Model ----
(***************************************************************************)
(* A model of the tract pipeline of src/src: identifier normalisation,     *)
(* the tract-boundary loader, the bikeway spatial join, the demographic    *)
(* loader with its cache, the merge of the layers, the division-derived    *)
(* fields and the re-ranking of cluster labels.                            *)
(*                                                                         *)
(* Strings are sequences of one-character strings.  A table is a sequence  *)
(* of rows (records).  A missing value (NaN, pd.NA) is the value NA.       *)
(* Each component has its own specification; the variables of the other   *)
(* components stay at their idle values.                                   *)
(***************************************************************************)
EXTENDS Integers, Sequences, FiniteSets, TLC

VARIABLES
    \* identifier normalisation (load.py:57-59)
    norm_pc, raw_id, geoid_once, geoid_twice, ces_geoid,
    \* load_bikeways and the load_census_tracts call it makes (load.py:26-221)
    pc, tracts_file, bike_file, bike_gdf, tracts, joined, mode,
    overlay_raised, fallback_tried, final_df, printed,
    \* merge_layers (process.py:68-103)
    merge_pc, acs, ces, bike, tracts_arg, merged,
    \* add_vehicle_rate, add_bikeway_per_capita, add_bike_lane_area_density
    \* (process.py:11-66)
    derive_pc, df_in, df_out,
    \* add_clusters (analyze.py:72-121)
    cluster_pc, cluster_df, cluster_cols, raw_labels, clustered,
    \* fetch_acs_los_angeles, save_acs and the cache file (load.py:223-261,
    \* main.py:17-22)
    acs_pc, runs, api, cache, fetched, acs_log,
    \* main (main.py:7-122): its position, the environmental file, the
    \* regression model, the geometry table and the uncaught exception
    main_pc, ces_file, model, gdf, main_error

varsNorm == <<norm_pc, raw_id, geoid_once, geoid_twice, ces_geoid>>

varsBike == <<pc, tracts_file, bike_file, bike_gdf, tracts, joined, mode,
              overlay_raised, fallback_tried, final_df, printed>>

varsMerge == <<merge_pc, acs, ces, bike, tracts_arg, merged>>

varsDerive == <<derive_pc, df_in, df_out>>

varsCluster == <<cluster_pc, cluster_df, cluster_cols, raw_labels, clustered>>

varsAcs == <<acs_pc, runs, api, cache, fetched, acs_log>>

varsMain == <<main_pc, ces_file, model, gdf, main_error>>

vars == <<varsNorm, varsBike, varsMerge, varsDerive, varsCluster, varsAcs, varsMain>>

NA == "NA"

Min(S) == CHOOSE x \in S : \A y \in S : x <= y

\* ---------------------------------------------------------------- strings

\* The strings of length 0..n over the alphabet A.
RECURSIVE StringsUpTo(_, _)
StringsUpTo(A, n) ==
    IF n = 0 THEN {<<>>}
    ELSE LET shorter == StringsUpTo(A, n - 1)
         IN shorter \cup {Append(s, c) : s \in shorter, c \in A}

\* str.startswith
StartsWith(s, p) == Len(s) >= Len(p) /\ SubSeq(s, 1, Len(p)) = p

\* .str.split('.').str[0]: the part before the first decimal point.
SplitDotFirst(s) ==
    LET dots == {i \in 1..Len(s) : s[i] = "."}
    IN IF dots = {} THEN s ELSE SubSeq(s, 1, Min(dots) - 1)

\* .str.zfill(w): left-pad with "0" to width w, longer strings unchanged.
ZFill(s, w) ==
    IF Len(s) >= w THEN s ELSE [i \in 1..(w - Len(s)) |-> "0"] \o s

\* The state+county prefix '06037'.
CountyPrefix == <<"0", "6", "0", "3", "7">>

\* The tract-code width given to zfill.
TractCodeWidth == 6

\* The length of a canonical GEOID, as tests.py asserts it.
GeoidLen == 11

\* A plausible slip: the prefix is always prepended.
TractNormalizeAlwaysPrefix(raw) ==
    CountyPrefix \o ZFill(SplitDotFirst(raw), TractCodeWidth)

\* load_census_tracts, lines 57-59: tract_suffix, then GEOID.
TractNormalize(raw) ==
    LET tract_suffix == ZFill(SplitDotFirst(raw), TractCodeWidth)
    IN IF StartsWith(tract_suffix, CountyPrefix)
       THEN tract_suffix
       ELSE CountyPrefix \o tract_suffix

\* load_calenviroscreen, lines 119-120: the part before the decimal
\* point, with a "0" put in front of a 10-character value.
CesNormalize(raw) ==
    LET x == SplitDotFirst(raw)
    IN IF Len(x) = GeoidLen - 1 THEN <<"0">> \o x ELSE x

\* load_calenviroscreen, line 121: the rows kept.
CesKept(geoid) == StartsWith(geoid, CountyPrefix)

\* ------------------------------------------------ raw identifier inputs

\* Longest run of free characters in a generated raw identifier.
MaxBody == 6

\* Characters of the free part: two digits and a non-digit.
BodyChars == {"0", "1", "x"}

\* What may precede the free part: nothing, a lost-leading-zero county
\* prefix, the county prefix, a broken prefix.
RawHeads == {<<>>, <<"6", "0", "3", "7">>, CountyPrefix, <<"0", "6", "0">>}

\* What may follow it: nothing or a fractional suffix.
RawTails == {<<>>, <<".">>, <<".", "0">>, <<".", "0", "1">>, <<".", "0", ".", "1">>}

RawIds == {h \o b \o t : h \in RawHeads, b \in StringsUpTo(BodyChars, MaxBody), t \in RawTails}

IsDigits(s) == \A i \in 1..Len(s) : s[i] \in {"0", "1", "2", "3", "4", "5", "6", "7", "8", "9"}

\* An already-canonical identifier: 11 digits starting with the prefix.
IsCanonical(s) == Len(s) = GeoidLen /\ IsDigits(s) /\ StartsWith(s, CountyPrefix)

\* ------------------------------------------- SpecNorm: the normaliser

NormInit ==
    /\ norm_pc = "raw"
    /\ raw_id \in RawIds
    /\ geoid_once = <<>>
    /\ geoid_twice = <<>>
    /\ ces_geoid = <<>>

NormIdle ==
    /\ norm_pc = "idle"
    /\ raw_id = <<>>
    /\ geoid_once = <<>>
    /\ geoid_twice = <<>>
    /\ ces_geoid = <<>>

\* The loader normalises the raw identifier column.
Normalize ==
    /\ norm_pc = "raw"
    /\ geoid_once' = TractNormalize(raw_id)
    /\ norm_pc' = "once"
    /\ UNCHANGED <<raw_id, geoid_twice, ces_geoid, varsBike, varsMerge, varsDerive, varsCluster, varsAcs, varsMain>>

\* The normaliser applied to its own output.
Renormalize ==
    /\ norm_pc = "once"
    /\ geoid_twice' = TractNormalize(geoid_once)
    /\ norm_pc' = "twice"
    /\ UNCHANGED <<raw_id, geoid_once, ces_geoid, varsBike, varsMerge, varsDerive, varsCluster, varsAcs, varsMain>>

\* The environmental loader normalises the same raw identifier.
NormalizeCes ==
    /\ norm_pc = "twice"
    /\ ces_geoid' = CesNormalize(raw_id)
    /\ norm_pc' = "ces"
    /\ UNCHANGED <<raw_id, geoid_once, geoid_twice, varsBike, varsMerge, varsDerive,
                   varsCluster, varsAcs, varsMain>>

NormNext == Normalize \/ Renormalize \/ NormalizeCes

\* ------------------------------------------------------------ tables

RECURSIVE SumOver(_, _)
\* The sum of f[x] over the finite set S.
SumOver(S, f) ==
    IF S = {} THEN 0
    ELSE LET x == CHOOSE y \in S : TRUE
         IN f[x] + SumOver(S \ {x}, f)

Range(q) == {q[i] : i \in 1..Len(q)}

\* The sequences of length 0..n over the set S.
RECURSIVE SeqsUpTo(_, _)
SeqsUpTo(S, n) ==
    IF n = 0 THEN {<<>>}
    ELSE LET shorter == SeqsUpTo(S, n - 1)
         IN shorter \cup {Append(q, x) : q \in {r \in shorter : Len(r) = n - 1}, x \in S}

\* DataFrame.drop_duplicates on a single column: the first occurrence of
\* every value, in order.
RECURSIVE DropDuplicates(_)
DropDuplicates(ids) ==
    IF ids = <<>> THEN <<>>
    ELSE LET front == DropDuplicates(SubSeq(ids, 1, Len(ids) - 1))
             last == ids[Len(ids)]
         IN IF last \in Range(front) THEN front ELSE Append(front, last)

\* ------------------------------------------- the tract-boundary loader

\* The ground is a set of cells; a polygon is the set of cells it covers,
\* a line the set of cells it crosses (one metre in each), and two
\* geometries intersect in the cells they share.
Cells == {"west", "east"}

\* Most rows in a generated boundary file.
MaxTractRows == 2

\* Most segments in a generated bikeway file.
MaxSegs == 1

\* gdf.area * 3.86102e-7, in units of 1e-12 square miles per cell.
SqMiPerCell == 386102

\* length_m * 0.000621371, in units of 1e-9 miles.
MilesPerMeterE9 == 621371

\* gdf.columns.str.upper() on the column names a boundary file may carry.
Upper(c) ==
    CASE c = "ct20" -> "CT20"
      [] c = "geoid" -> "GEOID"
      [] c = "geoid20" -> "GEOID20"
      [] OTHER -> c

\* 'GEOID' in c, on the upper-cased names.
ContainsGEOID(c) == c \in {"GEOID", "GEOID10", "GEOID20"}

\* A slip: only the three fixed names are probed.
FindGeoidColFixedNamesOnly(columns) ==
    IF "CT20" \in columns THEN "CT20"
    ELSE IF "GEOID" \in columns THEN "GEOID"
    ELSE IF "GEOID10" \in columns THEN "GEOID10"
    ELSE NA

\* load_census_tracts, lines 47-54: the identifier column, NA when the
\* else branch ends in the raise.
FindGeoidCol(columns) ==
    IF "CT20" \in columns THEN "CT20"
    ELSE IF "GEOID" \in columns THEN "GEOID"
    ELSE IF "GEOID10" \in columns THEN "GEOID10"
    ELSE LET candidates == {c \in columns : ContainsGEOID(c)}
         IN IF candidates # {} THEN CHOOSE c \in candidates : TRUE ELSE NA

\* The names the loader probes for, by name.
CandidatesTried == {"CT20", "GEOID", "GEOID10"}

TractColumns == {"GEOID", "GEOMETRY", "tract_area_sq_mi"}

\* load_census_tracts.  A file is [readable, columns, rows]; a row is
\* [raw, poly], raw being its value in the identifier column.  Returns
\* what the call gives its caller and what it printed.
LoadCensusTracts(file) ==
    IF ~file.readable
    THEN [kind |-> "table", columns |-> TractColumns, rows |-> <<>>,
          printed |-> {"tracts_read_error"}]
    ELSE LET columns == {Upper(c) : c \in file.columns}
             geoid_col == FindGeoidCol(columns)
         IN IF geoid_col = NA
            THEN [kind |-> "raised", error |-> "KeyError",
                  message |-> [text |-> "Could not find tract ID. Found:",
                               listed |-> columns],
                  printed |-> {}]
            ELSE [kind |-> "table", columns |-> TractColumns,
                  rows |-> [i \in 1..Len(file.rows) |->
                              [GEOID |-> TractNormalize(file.rows[i].raw),
                               GEOMETRY |-> file.rows[i].poly,
                               tract_area_sq_mi |->
                                   Cardinality(file.rows[i].poly) * SqMiPerCell]],
                  printed |-> {"tracts_loaded"}]

\* ------------------------------------------------- the spatial join

\* gpd.overlay(how='intersection'): one piece for every segment and tract
\* row whose geometries intersect.
OverlayIntersection(segs, rows) ==
    {[seg |-> i, row |-> j, GEOID |-> rows[j].GEOID,
      length_m |-> Cardinality(segs[i].cells \cap rows[j].GEOMETRY)] :
        <<i, j>> \in {p \in (1..Len(segs)) \X (1..Len(rows)) :
                        segs[p[1]].cells \cap rows[p[2]].GEOMETRY # {}}}

\* gpd.sjoin(predicate='within') of the segment centroids, then the
\* original length of the segment (lines 189-205).
SjoinCentroidWithin(segs, rows) ==
    {[seg |-> i, row |-> j, GEOID |-> rows[j].GEOID,
      length_m |-> Cardinality(segs[i].cells)] :
        <<i, j>> \in {p \in (1..Len(segs)) \X (1..Len(rows)) :
                        segs[p[1]].centroid \in rows[p[2]].GEOMETRY}}

\* A slip: the fallback is never taken.
JoinedEmptyNever(j) == FALSE

\* joined.empty, line 185.
JoinedEmpty(j) == j = {}

\* length_m * 0.000621371, then groupby("GEOID").sum(): the identifiers
\* that have a piece, each with its sum.
Aggregated(j) ==
    [g \in {r.GEOID : r \in j} |->
        SumOver({r \in j : r.GEOID = g},
                [r \in j |-> r.length_m * MilesPerMeterE9])]

\* tracts[['GEOID']].drop_duplicates()
AllTracts(rows) == DropDuplicates([i \in 1..Len(rows) |-> rows[i].GEOID])

\* A slip: an inner join, which keeps only the tracts that have a piece.
InnerMerge(all_tracts, aggregated) ==
    LET kept == SelectSeq(all_tracts, LAMBDA g : g \in DOMAIN aggregated)
    IN [i \in 1..Len(kept) |->
          [GEOID |-> kept[i], bikeway_miles |-> aggregated[kept[i]]]]

\* all_tracts.merge(aggregated, how='left').fillna({'bikeway_miles': 0})
LeftMergeFillZero(all_tracts, aggregated) ==
    [i \in 1..Len(all_tracts) |->
        [GEOID |-> all_tracts[i],
         bikeway_miles |-> IF all_tracts[i] \in DOMAIN aggregated
                           THEN aggregated[all_tracts[i]] ELSE 0]]

\* all_tracts['bikeway_miles'] = 0.0, lines 200-202.
AllZero(all_tracts) ==
    [i \in 1..Len(all_tracts) |-> [GEOID |-> all_tracts[i], bikeway_miles |-> 0]]

BikeColumns == {"GEOID", "bikeway_miles"}

EmptyBikeTable == [kind |-> "table", columns |-> BikeColumns, rows |-> <<>>]

\* ------------------------------------------------ input files of Spec

TractRawIds == {<<"1", "0", "1">>, <<"1", "0", "1", ".", "0", "2">>, <<"2", "0", "1", "1", "1", "0">>}

TractFileRows == [raw : TractRawIds, poly : SUBSET Cells \ {{}}]

TractFileColumns == {{"CT20", "geoid"}, {"geoid20", "NAME"}, {"NAME"}}

TractFiles ==
    {[readable |-> FALSE, columns |-> {}, rows |-> <<>>]} \cup
    [readable : {TRUE}, columns : TractFileColumns,
     rows : SeqsUpTo(TractFileRows, MaxTractRows)]

Segments == [cells : SUBSET Cells \ {{}}, centroid : Cells]

BikeFiles ==
    {[readable |-> FALSE, rows |-> <<>>]} \cup
    [readable : {TRUE}, rows : SeqsUpTo(Segments, MaxSegs)]

NotYet == [kind |-> "none"]

BikeInit ==
    /\ pc = "start"
    /\ tracts_file \in TractFiles
    /\ bike_file \in BikeFiles
    /\ bike_gdf = <<>>
    /\ tracts = NotYet
    /\ joined = {}
    /\ mode = "none"
    /\ overlay_raised = FALSE
    /\ fallback_tried = FALSE
    /\ final_df = NotYet
    /\ printed = {}

BikeIdle ==
    /\ pc = "idle"
    /\ tracts_file = [readable |-> FALSE, columns |-> {}, rows |-> <<>>]
    /\ bike_file = [readable |-> FALSE, rows |-> <<>>]
    /\ bike_gdf = <<>>
    /\ tracts = NotYet
    /\ joined = {}
    /\ mode = "none"
    /\ overlay_raised = FALSE
    /\ fallback_tried = FALSE
    /\ final_df = NotYet
    /\ printed = {}

\* Lines 141-146: gpd.read_file(BIKEWAYS_FILE) and its except branch.
ReadBikeways ==
    /\ pc = "start"
    /\ IF bike_file.readable
       THEN /\ bike_gdf' = bike_file.rows
            /\ pc' = "tracts"
            /\ printed' = printed \cup {"loading_bikeways"}
            /\ UNCHANGED final_df
       ELSE /\ final_df' = EmptyBikeTable
            /\ pc' = "done"
            /\ printed' = printed \cup {"loading_bikeways", "bikeways_read_error"}
            /\ UNCHANGED bike_gdf
    /\ UNCHANGED <<tracts_file, bike_file, tracts, joined, mode,
                   overlay_raised, fallback_tried, varsNorm, varsMerge, varsDerive, varsCluster, varsAcs, varsMain>>

\* Lines 148-149: tracts = load_census_tracts(); its raise is not caught,
\* an empty table ends the call.
LoadTracts ==
    /\ pc = "tracts"
    /\ LET ret == LoadCensusTracts(tracts_file)
       IN /\ tracts' = [x \in DOMAIN ret \ {"printed"} |-> ret[x]]
          /\ printed' = printed \cup ret.printed
          /\ IF ret.kind = "raised"
             THEN /\ final_df' = [kind |-> "raised", error |-> ret.error]
                  /\ pc' = "done"
             ELSE IF ret.rows = <<>>
             THEN /\ final_df' = EmptyBikeTable
                  /\ pc' = "done"
             ELSE /\ pc' = "overlay"
                  /\ UNCHANGED final_df
    /\ UNCHANGED <<tracts_file, bike_file, bike_gdf, joined, mode,
                   overlay_raised, fallback_tried, varsNorm, varsMerge, varsDerive, varsCluster, varsAcs, varsMain>>

\* Lines 169-185 and 206-208: the overlay inside try/except; the library
\* call may raise on any input.
Overlay ==
    /\ pc = "overlay"
    /\ \E raises \in BOOLEAN :
        LET j == IF raises THEN {} ELSE OverlayIntersection(bike_gdf, tracts.rows)
        IN /\ overlay_raised' = raises
           /\ joined' = j
           /\ printed' = printed \cup {"overlay"} \cup
                         (IF raises THEN {"overlay_failed"} ELSE {})
           /\ IF JoinedEmpty(j)
              THEN pc' = "fallback" /\ UNCHANGED mode
              ELSE pc' = "aggregate" /\ mode' = "exact"
    /\ UNCHANGED <<tracts_file, bike_file, bike_gdf, tracts,
                   fallback_tried, final_df, varsNorm, varsMerge, varsDerive, varsCluster, varsAcs, varsMain>>

\* Lines 185-205: the centroid fallback and its own empty case.
Fallback ==
    /\ pc = "fallback"
    /\ fallback_tried' = TRUE
    /\ LET j == SjoinCentroidWithin(bike_gdf, tracts.rows)
       IN /\ joined' = j
          /\ IF j = {}
             THEN /\ final_df' = [kind |-> "table", columns |-> BikeColumns,
                                  rows |-> AllZero(AllTracts(tracts.rows))]
                  /\ pc' = "done"
                  /\ printed' = printed \cup {"zero_matches", "centroid_fallback",
                                              "no_overlap"}
                  /\ UNCHANGED mode
             ELSE /\ mode' = "centroid"
                  /\ pc' = "aggregate"
                  /\ printed' = printed \cup {"zero_matches", "centroid_fallback"}
                  /\ UNCHANGED final_df
    /\ UNCHANGED <<tracts_file, bike_file, bike_gdf, tracts, overlay_raised, varsNorm, varsMerge, varsDerive, varsCluster, varsAcs, varsMain>>

\* Lines 210-221: miles, groupby, merge back to all tracts.
Aggregate ==
    /\ pc = "aggregate"
    /\ final_df' = [kind |-> "table", columns |-> BikeColumns,
                    rows |-> LeftMergeFillZero(AllTracts(tracts.rows), Aggregated(joined))]
    /\ pc' = "done"
    /\ printed' = printed \cup {"total_miles"}
    /\ UNCHANGED <<tracts_file, bike_file, bike_gdf, tracts, joined, mode,
                   overlay_raised, fallback_tried, varsNorm, varsMerge, varsDerive, varsCluster, varsAcs, varsMain>>

BikeNext == ReadBikeways \/ LoadTracts \/ Overlay \/ Fallback \/ Aggregate

\* ------------------------------------------------------ merge_layers

\* A numeric cell is [k, n, d]: the number n/d, a missing value (NaN,
\* pd.NA) or an infinity.
Num(n) == [k |-> "num", n |-> n, d |-> 1]

Missing == [k |-> "na", n |-> 0, d |-> 1]

Infinite == [k |-> "inf", n |-> 0, d |-> 1]

\* Series.fillna(v)
FillNa(x, v) == IF x.k = "na" THEN Num(v) ELSE x

\* astype(str) of an identifier cell [t, v]: a string stays, an int64
\* becomes its decimal digits.
AsTypeStr(x) == x.v

\* A table is [columns, rows]; DataFrame.empty.
Empty(df) == df.rows = <<>> \/ df.columns = {}

\* left.merge(right, on="GEOID", how="left"): every left row once per
\* matching right row, once with missing values when none matches.
RECURSIVE LeftMerge(_, _, _)
LeftMerge(left, right, rcols) ==
    IF left = <<>> THEN <<>>
    ELSE LET l == Head(left)
             matches == SelectSeq(right, LAMBDA r : r.GEOID = l.GEOID)
             cols == DOMAIN l \cup rcols
             out == IF matches = <<>>
                    THEN << [c \in cols |-> IF c \in DOMAIN l THEN l[c] ELSE Missing] >>
                    ELSE [i \in 1..Len(matches) |->
                            [c \in cols |-> IF c \in DOMAIN l THEN l[c] ELSE matches[i][c]]]
         IN out \o LeftMerge(Tail(left), right, rcols)

\* m.merge(df, on="GEOID", how="left") on tables.
MergeTable(m, df) ==
    [columns |-> m.columns \cup df.columns,
     rows |-> LeftMerge(m.rows, df.rows, df.columns)]

\* drop_duplicates(subset=['GEOID']): the first row of every identifier.
DropDuplicateRows(rows) ==
    SelectSeq([i \in 1..Len(rows) |-> [row |-> rows[i], first |->
                  \A k \in 1..(i - 1) : rows[k].GEOID # rows[i].GEOID]],
              LAMBDA x : x.first)

\* tracts[['GEOID', 'tract_area_sq_mi']].drop_duplicates(subset=['GEOID'])
TractArea(t) ==
    LET kept == DropDuplicateRows(t.rows)
    IN [columns |-> {"GEOID", "tract_area_sq_mi"},
        rows |-> [i \in 1..Len(kept) |->
                    [GEOID |-> kept[i].row.GEOID,
                     tract_area_sq_mi |-> kept[i].row.tract_area_sq_mi]]]

NoTracts == [columns |-> {}, rows |-> <<>>, none |-> TRUE]

\* merge_layers(acs, ces, bike, tracts)
MergeLayers(a, c, b, t) ==
    LET m0 == [columns |-> a.columns,
               rows |-> [i \in 1..Len(a.rows) |->
                           [a.rows[i] EXCEPT !.GEOID = AsTypeStr(@)]]]
        m1 == IF ~Empty(c) THEN MergeTable(m0, c) ELSE m0
        m2 == IF ~Empty(b) THEN MergeTable(m1, b) ELSE m1
        m3 == IF ~t.none /\ ~Empty(t) /\ "tract_area_sq_mi" \in t.columns
              THEN MergeTable(m2, TractArea(t)) ELSE m2
    IN IF "bikeway_miles" \in m3.columns
       THEN [m3 EXCEPT !.rows = [i \in 1..Len(m3.rows) |->
                [m3.rows[i] EXCEPT !.bikeway_miles = FillNa(@, 0)]]]
       ELSE [columns |-> m3.columns \cup {"bikeway_miles"},
             rows |-> [i \in 1..Len(m3.rows) |->
                         [c2 \in DOMAIN m3.rows[i] \cup {"bikeway_miles"} |->
                             IF c2 = "bikeway_miles" THEN Num(0) ELSE m3.rows[i][c2]]]]

\* ---------------------------------------------- input tables of SpecMerge

\* Most rows in each generated input table of the merge.
MaxMergeRows == 2

\* The identifiers the tract loader produces from its raw values.
Geoids == {TractNormalize(r) : r \in TractRawIds}

\* GEOID cells of the demographic table: strings from the API, or int64
\* (the leading zero gone) when read back from the cache CSV.
AcsIds == [t : {"str"}, v : Geoids] \cup
          {[t |-> "int", v |-> Tail(TractNormalize(<<"1", "0", "1">>))]}

AcsColumns == {"GEOID", "median_income", "population", "households_no_vehicle",
               "total_households"}

AcsTables ==
    {[columns |-> AcsColumns,
      rows |-> [i \in 1..Len(ids) |->
                  [GEOID |-> ids[i], median_income |-> Num(50 + i),
                   population |-> Num(100 * i), households_no_vehicle |-> Num(i),
                   total_households |-> Num(10 * i)]]] :
        ids \in SeqsUpTo(AcsIds, MaxMergeRows)}

CesTables ==
    {[columns |-> IF ids = <<>> THEN {} ELSE {"GEOID", "ces_score"},
      rows |-> [i \in 1..Len(ids) |-> [GEOID |-> ids[i], ces_score |-> Num(10 * i)]]] :
        ids \in SeqsUpTo(Geoids, MaxMergeRows)}

\* load_bikeways returns one row per identifier (drop_duplicates before
\* its last merge), or the empty table.
BikeTables ==
    {[columns |-> IF ids = <<>> THEN {} ELSE BikeColumns,
      rows |-> [i \in 1..Len(ids) |-> [GEOID |-> ids[i], bikeway_miles |-> Num(i - 1)]]] :
        ids \in {q \in SeqsUpTo(Geoids, MaxMergeRows) :
                    \A i, j \in 1..Len(q) : q[i] = q[j] => i = j}}

TractTables ==
    {NoTracts} \cup
    {[columns |-> TractColumns, none |-> FALSE,
      rows |-> [i \in 1..Len(ids) |->
                  [GEOID |-> ids[i], GEOMETRY |-> {"west"},
                   tract_area_sq_mi |-> Num(i - 1)]]] :
        ids \in SeqsUpTo(Geoids, MaxMergeRows)}

MergeInit ==
    /\ merge_pc = "inputs"
    /\ acs \in AcsTables
    /\ ces \in CesTables
    /\ bike \in BikeTables
    /\ tracts_arg \in TractTables
    /\ merged = NotYet

MergeIdle ==
    /\ merge_pc = "idle"
    /\ acs = NotYet
    /\ ces = NotYet
    /\ bike = NotYet
    /\ tracts_arg = NotYet
    /\ merged = NotYet

\* merged = process.merge_layers(acs, ces, bike, tracts)
Merge ==
    /\ merge_pc = "inputs"
    /\ merged' = MergeLayers(acs, ces, bike, tracts_arg)
    /\ merge_pc' = "merged"
    /\ UNCHANGED <<acs, ces, bike, tracts_arg, varsNorm, varsBike, varsDerive, varsCluster, varsAcs, varsMain>>

MergeNext == Merge

\* ------------------------------------------------ the derived fields

\* A slip: the zero denominator is left in place.
Replace0Forgotten(x) == x

\* Series.replace(0, pd.NA)
Replace0(x) == IF x.k = "num" /\ x.n = 0 THEN Missing ELSE x

\* Elementwise division of two cells: a missing operand gives a missing
\* value, a zero divisor NaN for 0/0 and an infinity otherwise.
Div(a, b) ==
    IF a.k # "num" \/ b.k # "num" THEN Missing
    ELSE IF b.n = 0 THEN (IF a.n = 0 THEN Missing ELSE Infinite)
    ELSE [k |-> "num", n |-> a.n * b.d, d |-> a.d * b.n]

\* cell * 1000
Times1000(x) == IF x.k = "num" THEN [x EXCEPT !.n = @ * 1000] ELSE x

\* The table with column c set row by row.
WithColumn(df, c, f(_)) ==
    [kind |-> "table", columns |-> df.columns \cup {c},
     rows |-> [i \in 1..Len(df.rows) |->
                 [x \in DOMAIN df.rows[i] \cup {c} |->
                     IF x = c THEN f(df.rows[i]) ELSE df.rows[i][x]]]]

\* Lines 34-37 and 53-55: bikeway_miles created at 0.0 or zero-filled.
WithBikewayMiles(df) ==
    IF "bikeway_miles" \notin df.columns
    THEN WithColumn(df, "bikeway_miles", LAMBDA r : Num(0))
    ELSE WithColumn(df, "bikeway_miles", LAMBDA r : FillNa(r.bikeway_miles, 0))

\* add_vehicle_rate(df)
AddVehicleRateOf(df) ==
    IF "households_no_vehicle" \in df.columns /\ "population" \in df.columns
    THEN WithColumn(df, "vehicle_rate",
                    LAMBDA r : Div(r.households_no_vehicle, Replace0(r.population)))
    ELSE WithColumn(df, "vehicle_rate", LAMBDA r : Missing)

\* add_bikeway_per_capita(df); r["population"] raises when the column is
\* absent.
AddBikewayPerCapitaOf(df) ==
    LET r0 == WithBikewayMiles(df)
    IN IF "population" \notin df.columns
       THEN [kind |-> "raised", error |-> "KeyError"]
       ELSE WithColumn(r0, "bikeway_miles_per_1000",
                       LAMBDA r : Times1000(Div(r.bikeway_miles, Replace0(r.population))))

\* add_bike_lane_area_density(df)
AddBikeLaneAreaDensityOf(df) ==
    LET r0 == WithBikewayMiles(df)
    IN IF "tract_area_sq_mi" \notin df.columns
       THEN WithColumn(r0, "bike_lane_density_sq_mi", LAMBDA r : Missing)
       ELSE WithColumn(r0, "bike_lane_density_sq_mi",
                       LAMBDA r : Div(r.bikeway_miles, Replace0(r.tract_area_sq_mi)))

\* Most rows in a generated input table of the derived fields.
MaxDeriveRows == 1

\* A cell of an input column: missing, zero, a positive number.
CellValues == {Missing, Num(0), Num(2), Num(3)}

\* The columns merge_layers may leave out.
OptionalColumns == {"bikeway_miles", "tract_area_sq_mi"}

DeriveColumns == {"households_no_vehicle", "population"} \cup OptionalColumns

\* The tables the derived fields are computed on: the demographic columns
\* are always there (load.py:246,252), the other two may be absent.
DeriveTables ==
    {[columns |-> DeriveColumns \ absent,
      rows |-> [i \in 1..Len(rows) |-> [c \in DeriveColumns \ absent |-> rows[i][c]]]] :
        absent \in SUBSET OptionalColumns,
        rows \in SeqsUpTo([DeriveColumns -> CellValues], MaxDeriveRows)}

DeriveInit ==
    /\ derive_pc = "inputs"
    /\ df_in \in DeriveTables
    /\ df_out = NotYet

DeriveIdle ==
    /\ derive_pc = "idle"
    /\ df_in = NotYet
    /\ df_out = NotYet

AddVehicleRate ==
    /\ derive_pc = "inputs"
    /\ df_out' = AddVehicleRateOf(df_in)
    /\ derive_pc' = "vehicle_rate"
    /\ UNCHANGED <<df_in, varsNorm, varsBike, varsMerge, varsCluster, varsAcs, varsMain>>

AddBikewayPerCapita ==
    /\ derive_pc = "inputs"
    /\ df_out' = AddBikewayPerCapitaOf(df_in)
    /\ derive_pc' = "bikeway_miles_per_1000"
    /\ UNCHANGED <<df_in, varsNorm, varsBike, varsMerge, varsCluster, varsAcs, varsMain>>

AddBikeLaneAreaDensity ==
    /\ derive_pc = "inputs"
    /\ df_out' = AddBikeLaneAreaDensityOf(df_in)
    /\ derive_pc' = "bike_lane_density_sq_mi"
    /\ UNCHANGED <<df_in, varsNorm, varsBike, varsMerge, varsCluster, varsAcs, varsMain>>

DeriveNext == AddVehicleRate \/ AddBikewayPerCapita \/ AddBikeLaneAreaDensity

\* -------------------------------------------------------- add_clusters

\* len(fit_data) < 20
MinFitRows == 20

\* d.dropna(subset=cols): the positions of the rows complete in cols.
FitIndex(df, cols) ==
    {i \in 1..Len(df.rows) : \A j \in 1..Len(cols) : df.rows[i][cols[j]].k = "num"}

\* The values k-means sees of a row: its cells in the clustering columns.
Features(row, cols) == [j \in 1..Len(cols) |-> row[cols[j]].n]

\* sort_col, line 107.
SortCol(cols) == IF "ces_score" \in Range(cols) THEN "ces_score" ELSE cols[1]

\* groupby('temp_label')[sort_col].mean() of one label: the sum and the
\* count of its non-missing cells (count 0: the mean is NaN).
LabelMean(df, fit, labels, col, lbl) ==
    LET members == {i \in fit : labels[i] = lbl /\ df.rows[i][col].k = "num"}
    IN [sum |-> SumOver(members, [i \in members |-> df.rows[i][col].n]),
        cnt |-> Cardinality(members)]

\* Mean a is greater than mean b; a NaN mean is greater than nothing.
MeanGreater(a, b) == a.cnt > 0 /\ (b.cnt = 0 \/ a.sum * b.cnt > b.sum * a.cnt)

\* sort_values(ascending=False) and enumerate, lines 111-115: the new rank
\* of every label present, equal means kept in label order, NaN last.
Mapping(df, fit, labels, col) ==
    LET present == {labels[i] : i \in fit}
        mean(l) == LabelMean(df, fit, labels, col, l)
    IN [l \in present |->
          Cardinality({m \in present :
              \/ MeanGreater(mean(m), mean(l))
              \/ ~MeanGreater(mean(l), mean(m)) /\ m < l})]

\* df.merge(fit_data[["GEOID", "cluster"]], on="GEOID", how="left")
MergeClusters(df, fit, cluster) ==
    LET ordered == SelectSeq([i \in 1..Len(df.rows) |-> i], LAMBDA i : i \in fit)
        right == [n \in 1..Len(ordered) |->
                    [GEOID |-> df.rows[ordered[n]].GEOID,
                     cluster |-> Num(cluster[ordered[n]])]]
    IN [kind |-> "table", columns |-> df.columns \cup {"cluster"},
        rows |-> LeftMerge(df.rows, right, {"cluster"})]

\* add_clusters(df, cols, k) with km.labels_ = labels.
\* d.dropna(subset=cols) raises KeyError when a column of cols is absent.
AddClustersOf(df, cols, labels) ==
    IF ~(Range(cols) \subseteq df.columns)
    THEN [kind |-> "raised", error |-> "KeyError"]
    ELSE LET fit == FitIndex(df, cols)
             mapping == Mapping(df, fit, labels, SortCol(cols))
         IN IF Cardinality(fit) < MinFitRows
            THEN [kind |-> "table", columns |-> df.columns, rows |-> df.rows]
            ELSE MergeClusters(df, fit, [i \in fit |-> mapping[labels[i]]])

\* ---------------------------------------- input tables of SpecCluster

\* n_clusters of the k-means call.
KClusters == 2

\* Rows of a generated table that vary freely.
MaxFreeRows == 2

\* Rows of a generated table that are alike but for their identifier.
BackgroundRows == 18

Digit(n) == <<"0", "1", "2", "3", "4", "5", "6", "7", "8", "9">>[n + 1]

\* The identifier of the n-th background row.
BackgroundId(n) == CountyPrefix \o <<"9", "0", "0", "0">> \o <<Digit(n \div 10), Digit(n % 10)>>

ClusterColumns == {"GEOID", "ces_score", "bike_lane_density_sq_mi"}

FreeRows == [GEOID : Geoids, ces_score : {Missing, Num(10), Num(30)},
             bike_lane_density_sq_mi : {Num(1), Num(2)}]

ClusterTables ==
    {[columns |-> ClusterColumns,
      rows |-> free \o [n \in 1..BackgroundRows |->
                  [GEOID |-> BackgroundId(n), ces_score |-> Num(25),
                   bike_lane_density_sq_mi |-> Num(1)]]] :
        free \in SeqsUpTo(FreeRows, MaxFreeRows)}

\* The clustering columns a caller may pass.
ColumnChoices == {<<"bike_lane_density_sq_mi", "ces_score">>,
                  <<"ces_score">>, <<"bike_lane_density_sq_mi">>}

\* The labellings k-means may return: rows with equal values in the
\* clustering columns lie in the same cluster.
Labellings(df, cols) ==
    LET fit == FitIndex(df, cols)
        points == {Features(df.rows[i], cols) : i \in fit}
    IN {[i \in fit |-> f[Features(df.rows[i], cols)]] :
           f \in [points -> 0..(KClusters - 1)]}

ClusterInit ==
    /\ cluster_pc = "inputs"
    /\ cluster_df \in ClusterTables
    /\ cluster_cols \in ColumnChoices
    /\ raw_labels = <<>>
    /\ clustered = NotYet

ClusterIdle ==
    /\ cluster_pc = "idle"
    /\ cluster_df = NotYet
    /\ cluster_cols = <<>>
    /\ raw_labels = <<>>
    /\ clustered = NotYet

\* merged = analyze.add_clusters(merged, cluster_cols, k)
AddClusters ==
    /\ cluster_pc = "inputs"
    /\ \E labels \in Labellings(cluster_df, cluster_cols) :
          /\ raw_labels' = labels
          /\ clustered' = AddClustersOf(cluster_df, cluster_cols, labels)
    /\ cluster_pc' = "clustered"
    /\ UNCHANGED <<cluster_df, cluster_cols, varsNorm, varsBike, varsMerge, varsDerive, varsAcs, varsMain>>

ClusterNext == AddClusters

\* ------------------------------------- the demographic loader and cache

\* A string without its leading zeros: the digits of the integer it spells.
RECURSIVE StripLeadingZeros(_)
StripLeadingZeros(str) ==
    IF Len(str) > 1 /\ Head(str) = "0" THEN StripLeadingZeros(Tail(str)) ELSE str

\* df.to_csv(path, index=False): the header and, per row, the text of the
\* identifier; a number is written so that it reads back as itself, a
\* missing value as an empty field.
ToCsv(df) ==
    [exists |-> TRUE, columns |-> df.columns,
     rows |-> [i \in 1..Len(df.rows) |->
                 [c \in DOMAIN df.rows[i] |->
                     IF c = "GEOID" THEN AsTypeStr(df.rows[i][c]) ELSE df.rows[i][c]]]]

\* pd.read_csv(backup): a GEOID column of digit strings only is inferred
\* as int64, otherwise it stays a column of strings.
ReadCsv(file) ==
    LET allDigits == \A i \in 1..Len(file.rows) :
                        file.rows[i].GEOID # <<>> /\ IsDigits(file.rows[i].GEOID)
    IN [kind |-> "table", columns |-> file.columns,
        rows |-> [i \in 1..Len(file.rows) |->
                    [c \in DOMAIN file.rows[i] |->
                        IF c # "GEOID" THEN file.rows[i][c]
                        ELSE IF allDigits /\ file.rows # <<>>
                             THEN [t |-> "int", v |-> StripLeadingZeros(file.rows[i][c])]
                             ELSE [t |-> "str", v |-> file.rows[i][c]]]]]

\* The failures raised inside the try block: requests.get, raise_for_status,
\* r.json().
CaughtFailures == {"network_error", "http_error", "bad_json"}

EmptyAcsTable == [kind |-> "table", columns |-> AcsColumns, rows |-> <<>>]

\* pd.DataFrame(data[1:], columns=cols), pd.to_numeric on the number
\* columns and GEOID = state + county + tract. A body that is JSON of
\* another shape fails here, outside the try block.
AcsFrame(resp) ==
    IF resp.outcome = "bad_shape"
    THEN [value |-> [kind |-> "raised", error |-> "ValueError"], log |-> {"fetching"}]
    ELSE [value |-> [kind |-> "table", columns |-> AcsColumns,
                     rows |-> [i \in 1..Len(resp.data) |->
                        [GEOID |-> [t |-> "str", v |-> resp.data[i].state
                                        \o resp.data[i].county \o resp.data[i].tract],
                         median_income |-> resp.data[i].median_income,
                         population |-> resp.data[i].population,
                         households_no_vehicle |-> resp.data[i].households_no_vehicle,
                         total_households |-> resp.data[i].total_households]]],
          log |-> {"fetching"}]

\* A slip: the cached copy is never looked for.
FetchAcsWithoutBackup(resp, backup) ==
    IF resp.outcome \in CaughtFailures
    THEN [value |-> EmptyAcsTable, log |-> {"fetching", "no_backup_warning"}]
    ELSE AcsFrame(resp)

\* fetch_acs_los_angeles() on the response resp with the cache file backup.
FetchAcsLosAngeles(resp, backup) ==
    IF resp.outcome \in CaughtFailures
    THEN IF backup.exists
         THEN [value |-> ReadCsv(backup), log |-> {"fetching", "backup_loaded"}]
         ELSE [value |-> EmptyAcsTable, log |-> {"fetching", "no_backup_warning"}]
    ELSE AcsFrame(resp)

\* Most tract rows in a generated API response.
MaxApiRows == 2

\* Most pipeline runs in a behaviour.
MaxRuns == 2

\* The rows of a response, their numeric fields after pd.to_numeric.
ApiRows == [state : {<<"0", "6">>}, county : {<<"0", "3", "7">>},
            tract : {<<"1", "0", "1", "1", "1", "0">>, <<"2", "0", "1", "1", "1", "0">>},
            median_income : {Num(51)}, population : {Num(0), Num(2)},
            households_no_vehicle : {Num(1)}, total_households : {Num(10)}]

ApiResponses ==
    [outcome : CaughtFailures \cup {"bad_shape"}, data : {<<>>}] \cup
    [outcome : {"ok"}, data : SeqsUpTo(ApiRows, MaxApiRows)]

NoFile == [exists |-> FALSE, columns |-> {}, rows |-> <<>>]

AcsInit ==
    /\ acs_pc = "start"
    /\ runs = 0
    /\ api = NotYet
    /\ cache = NoFile
    /\ fetched = NotYet
    /\ acs_log = {}

AcsIdle ==
    /\ acs_pc = "idle"
    /\ runs = 0
    /\ api = NotYet
    /\ cache = NoFile
    /\ fetched = NotYet
    /\ acs_log = {}

\* main.py:18: acs = load.fetch_acs_los_angeles(), on any response.
Fetch ==
    /\ acs_pc = "start"
    /\ runs < MaxRuns
    /\ \E resp \in ApiResponses :
          LET ret == FetchAcsLosAngeles(resp, cache)
          IN /\ api' = resp
             /\ fetched' = ret.value
             /\ acs_log' = ret.log
             /\ acs_pc' = IF ret.value.kind = "raised" THEN "crashed" ELSE "fetched"
    /\ UNCHANGED <<runs, cache, varsNorm, varsBike, varsMerge, varsDerive, varsCluster, varsMain>>

\* main.py:21-22: add_vehicle_rate, then save_acs writes the cache; the
\* run ends and a later run starts.
SaveAcs ==
    /\ acs_pc = "fetched"
    /\ cache' = ToCsv(AddVehicleRateOf(fetched))
    /\ runs' = runs + 1
    /\ acs_pc' = "start"
    /\ UNCHANGED <<api, fetched, acs_log, varsNorm, varsBike, varsMerge, varsDerive,
                   varsCluster, varsMain>>

AcsNext == Fetch \/ SaveAcs

\* ---------------------------------------------- the calls main makes

\* load_calenviroscreen on a file [kind, rows], a row being [raw,
\* ces_score]: a file that opens neither as CSV nor as Excel, a workbook
\* without a 'Census Tract' sheet, a CSV without that column (df['GEOID']
\* then raises KeyError), or a table that is read.
LoadCalenviroscreen(file) ==
    IF file.kind = "missing"
    THEN [value |-> [kind |-> "table", columns |-> {}, rows |-> <<>>],
          printed |-> {"loading_ces", "reading_as_excel", "ces_read_error"}]
    ELSE IF file.kind = "excel_no_sheet"
    THEN [value |-> [kind |-> "table", columns |-> {}, rows |-> <<>>],
          printed |-> {"loading_ces", "reading_as_excel"}]
    ELSE IF file.kind = "csv_no_column"
    THEN [value |-> [kind |-> "raised", error |-> "KeyError"],
          printed |-> {"loading_ces"}]
    ELSE LET normalized == [i \in 1..Len(file.rows) |->
                              [GEOID |-> CesNormalize(file.rows[i].raw),
                               ces_score |-> file.rows[i].ces_score]]
         IN [value |-> [kind |-> "table", columns |-> {"GEOID", "ces_score"},
                        rows |-> SelectSeq(normalized, LAMBDA r : CesKept(r.GEOID))],
             printed |-> {"loading_ces", "ces_loaded"}]

\* A loader's table with the numbers of column c as cells.
AsCells(df, c) ==
    [kind |-> "table", columns |-> df.columns,
     rows |-> [i \in 1..Len(df.rows) |-> [df.rows[i] EXCEPT ![c] = Num(@)]]]

\* load_bikeways() as one call: the table returned, what was printed and
\* the join that produced the lengths.  raises: the overlay raised.
LoadBikeways(bfile, tfile, raises) ==
    IF ~bfile.readable
    THEN [value |-> EmptyBikeTable, mode |-> "none",
          printed |-> {"loading_bikeways", "bikeways_read_error"}]
    ELSE LET t == LoadCensusTracts(tfile)
             exact == IF raises THEN {} ELSE OverlayIntersection(bfile.rows, t.rows)
             centroid == SjoinCentroidWithin(bfile.rows, t.rows)
             said == {"loading_bikeways", "overlay"} \cup t.printed \cup
                     (IF raises THEN {"overlay_failed"} ELSE {})
         IN IF t.kind = "raised"
            THEN [value |-> [kind |-> "raised", error |-> t.error], mode |-> "none",
                  printed |-> {"loading_bikeways"}]
            ELSE IF t.rows = <<>>
            THEN [value |-> EmptyBikeTable, mode |-> "none",
                  printed |-> {"loading_bikeways"} \cup t.printed]
            ELSE IF ~JoinedEmpty(exact)
            THEN [value |-> [kind |-> "table", columns |-> BikeColumns,
                             rows |-> LeftMergeFillZero(AllTracts(t.rows), Aggregated(exact))],
                  mode |-> "exact", printed |-> said \cup {"total_miles"}]
            ELSE IF centroid = {}
            THEN [value |-> [kind |-> "table", columns |-> BikeColumns,
                             rows |-> AllZero(AllTracts(t.rows))],
                  mode |-> "all_zero",
                  printed |-> said \cup {"zero_matches", "centroid_fallback", "no_overlap"}]
            ELSE [value |-> [kind |-> "table", columns |-> BikeColumns,
                             rows |-> LeftMergeFillZero(AllTracts(t.rows), Aggregated(centroid))],
                  mode |-> "centroid",
                  printed |-> said \cup {"zero_matches", "centroid_fallback", "total_miles"}]

\* run_ols(df, y, x): d.dropna(subset=[y] + x) raises KeyError when one of
\* the columns is absent; fewer than 20 complete rows give None; the fit
\* is inside try/except and gives None when it raises (fits = FALSE).
RunOls(df, y, x, fits) ==
    LET cols_to_process == <<y>> \o x
    IN IF ~(Range(cols_to_process) \subseteq df.columns)
       THEN [value |-> [kind |-> "raised", error |-> "KeyError"], printed |-> {}]
       ELSE IF Cardinality(FitIndex(df, cols_to_process)) < MinFitRows
       THEN [value |-> [kind |-> "none"], printed |-> {"ols_not_enough"}]
       ELSE IF fits
       THEN [value |-> [kind |-> "model",
                        nobs |-> Cardinality(FitIndex(df, cols_to_process))],
             printed |-> {}]
       ELSE [value |-> [kind |-> "none"], printed |-> {"regression_failed"}]

\* geo_data.merge(r, on="GEOID", how="inner"): for every tract row in turn,
\* the rows of r with its identifier.
RECURSIVE InnerMergeGeometry(_, _)
InnerMergeGeometry(geo, rows) ==
    IF geo = <<>> THEN <<>>
    ELSE LET g == Head(geo)
             matches == SelectSeq(rows, LAMBDA r : r.GEOID = g.GEOID)
         IN [i \in 1..Len(matches) |->
                [c \in DOMAIN matches[i] \cup {"GEOMETRY"} |->
                    IF c = "GEOMETRY" THEN g.GEOMETRY ELSE matches[i][c]]]
            \o InnerMergeGeometry(Tail(geo), rows)

\* attach_geometry(tracts, df)
AttachGeometry(t, df) ==
    LET kept == DropDuplicateRows(t.rows)
        geo_data == [i \in 1..Len(kept) |->
                       [GEOID |-> kept[i].row.GEOID, GEOMETRY |-> kept[i].row.GEOMETRY]]
    IN [kind |-> "table", columns |-> df.columns \cup {"GEOMETRY"},
        rows |-> InnerMergeGeometry(geo_data, df.rows)]

\* ------------------------------------------ the sources of a run of main

\* The tract code of the i-th tract of the county.
MainTractCode(i) == <<"9", "0", "0", "0">> \o <<Digit(i \div 10), Digit(i % 10)>>

\* Tract counts a source may hold: one short of the threshold, and the
\* threshold.
MainSizes == {MinFitRows - 1, MinFitRows}

MainApiResponses ==
    {[outcome |-> "network_error", data |-> <<>>]} \cup
    {[outcome |-> "ok",
      data |-> [i \in 1..n |->
                  [state |-> <<"0", "6">>, county |-> <<"0", "3", "7">>,
                   tract |-> MainTractCode(i), median_income |-> Num(50),
                   population |-> Num(100), households_no_vehicle |-> Num(5),
                   total_households |-> Num(40)]]] : n \in MainSizes}

\* No cache, or the cache an earlier complete run saved.
MainCaches ==
    {NoFile,
     ToCsv(AddVehicleRateOf(AcsFrame(
        CHOOSE r \in MainApiResponses : Len(r.data) = MinFitRows).value))}

\* The environmental file: its identifiers are numbers, read as
\* '6037dddddd.0'.
CesFiles ==
    {[kind |-> k, rows |-> <<>>] : k \in {"missing", "excel_no_sheet", "csv_no_column"}} \cup
    {[kind |-> "csv",
      rows |-> [i \in 1..MinFitRows |->
                  [raw |-> <<"6", "0", "3", "7">> \o MainTractCode(i) \o <<".", "0">>,
                   ces_score |-> Num(20 + (i % 2))]]]}

\* The boundary file: unreadable, without an identifier column, or one
\* polygon per tract, tract i covering the ground i.
MainTractFiles ==
    {[readable |-> FALSE, columns |-> {}, rows |-> <<>>],
     [readable |-> TRUE, columns |-> {"NAME"}, rows |-> <<>>],
     [readable |-> TRUE, columns |-> {"CT20", "geoid"},
      rows |-> [i \in 1..MinFitRows |-> [raw |-> MainTractCode(i), poly |-> {i}]]]}

\* The infrastructure file: unreadable, empty, a segment through tracts 1
\* and 2, a segment off every tract, a segment off every tract whose
\* centroid falls in tract 1.
MainBikeFiles ==
    {[readable |-> FALSE, rows |-> <<>>], [readable |-> TRUE, rows |-> <<>>]} \cup
    {[readable |-> TRUE, rows |-> <<seg>>] :
        seg \in {[cells |-> {1, 2}, centroid |-> 1], [cells |-> {0}, centroid |-> 0],
                 [cells |-> {0}, centroid |-> 1]}}

\* ------------------------------------------------- SpecMain: main()

MainIdle ==
    /\ main_pc = "idle"
    /\ ces_file = NotYet
    /\ model = NotYet
    /\ gdf = NotYet
    /\ main_error = NotYet

\* The state at line 8 of main: the sources are what they are, nothing
\* has been loaded.
MainInit ==
    /\ main_pc = "fetch"
    /\ api \in MainApiResponses
    /\ cache \in MainCaches
    /\ ces_file \in CesFiles
    /\ tracts_file \in MainTractFiles
    /\ bike_file \in MainBikeFiles
    /\ acs_pc = "idle" /\ runs = 0 /\ fetched = NotYet /\ acs_log = {}
    /\ pc = "idle" /\ bike_gdf = <<>> /\ tracts = NotYet /\ joined = {}
    /\ mode = "none" /\ overlay_raised = FALSE /\ fallback_tried = FALSE
    /\ final_df = NotYet /\ printed = {}
    /\ merge_pc = "idle" /\ acs = NotYet /\ ces = NotYet /\ bike = NotYet
    /\ tracts_arg = NotYet /\ merged = NotYet
    /\ model = NotYet /\ gdf = NotYet /\ main_error = NotYet

\* What no step of main changes.
mainFixed == <<pc, tracts_file, bike_file, bike_gdf, joined, fallback_tried, final_df,
               merge_pc, tracts_arg, acs_pc, runs, api, acs_log, ces_file,
               varsNorm, varsDerive, varsCluster>>

\* An exception nothing catches ends main.
Uncaught(error, at) == [kind |-> "raised", error |-> error, at |-> at]

\* Lines 17-22: fetch_acs_los_angeles, add_vehicle_rate, save_acs.
MainFetchAcs ==
    /\ main_pc = "fetch"
    /\ LET ret == FetchAcsLosAngeles(api, cache)
       IN /\ fetched' = ret.value
          /\ printed' = printed \cup {"loading_acs"} \cup ret.log
          /\ IF ret.value.kind = "raised"
             THEN /\ main_error' = Uncaught(ret.value.error, "fetch_acs_los_angeles")
                  /\ main_pc' = "crashed"
                  /\ UNCHANGED <<acs, cache>>
             ELSE /\ acs' = AddVehicleRateOf(ret.value)
                  /\ cache' = ToCsv(AddVehicleRateOf(ret.value))
                  /\ main_pc' = "ces"
                  /\ UNCHANGED main_error
    /\ UNCHANGED <<ces, tracts, bike, mode, overlay_raised, merged, model, gdf, mainFixed>>

\* Lines 24-25: load_calenviroscreen.
MainLoadCes ==
    /\ main_pc = "ces"
    /\ LET ret == LoadCalenviroscreen(ces_file)
       IN /\ printed' = printed \cup ret.printed
          /\ IF ret.value.kind = "raised"
             THEN /\ main_error' = Uncaught(ret.value.error, "load_calenviroscreen")
                  /\ main_pc' = "crashed"
                  /\ UNCHANGED ces
             ELSE /\ ces' = ret.value
                  /\ main_pc' = "tracts"
                  /\ UNCHANGED main_error
    /\ UNCHANGED <<fetched, cache, acs, tracts, bike, mode, overlay_raised, merged, model,
                   gdf, mainFixed>>

\* Lines 27-28: load_census_tracts.
MainLoadTracts ==
    /\ main_pc = "tracts"
    /\ LET ret == LoadCensusTracts(tracts_file)
       IN /\ printed' = printed \cup ret.printed
          /\ tracts' = [x \in DOMAIN ret \ {"printed"} |-> ret[x]]
          /\ IF ret.kind = "raised"
             THEN /\ main_error' = Uncaught(ret.error, "load_census_tracts")
                  /\ main_pc' = "crashed"
             ELSE /\ main_pc' = "bikeways"
                  /\ UNCHANGED main_error
    /\ UNCHANGED <<fetched, cache, acs, ces, bike, mode, overlay_raised, merged, model,
                   gdf, mainFixed>>

\* Line 29: load_bikeways; the overlay may raise on any input.
MainLoadBikeways ==
    /\ main_pc = "bikeways"
    /\ \E raises \in BOOLEAN :
          LET ret == LoadBikeways(bike_file, tracts_file, raises)
          IN /\ printed' = printed \cup ret.printed
             /\ overlay_raised' = (raises /\ "overlay" \in ret.printed)
             /\ mode' = ret.mode
             /\ bike' = AsCells(ret.value, "bikeway_miles")
    /\ main_pc' = "merge"
    /\ UNCHANGED <<fetched, cache, acs, ces, tracts, merged, model, gdf, main_error,
                   mainFixed>>

\* What merge_layers prints, whatever sources it skips: line 75.
MergeLayersPrinted(c, b, t) == {"merging_layers"}

\* Lines 34-36: merge_layers.
MainMerge ==
    /\ main_pc = "merge"
    /\ merged' = MergeLayers(acs, ces, bike,
                    [columns |-> tracts.columns, none |-> FALSE,
                     rows |-> AsCells(tracts, "tract_area_sq_mi").rows])
    /\ printed' = printed \cup MergeLayersPrinted(ces, bike, tracts)
    /\ main_pc' = "density"
    /\ UNCHANGED <<fetched, cache, acs, ces, tracts, bike, mode, overlay_raised, model,
                   gdf, main_error, mainFixed>>

\* Lines 40-43: add_bike_lane_area_density, save_master.
MainDensity ==
    /\ main_pc = "density"
    /\ merged' = AddBikeLaneAreaDensityOf(merged)
    /\ printed' = printed \cup
                  (IF "tract_area_sq_mi" \in merged.columns THEN {} ELSE {"area_missing"})
    /\ main_pc' = "ols"
    /\ UNCHANGED <<fetched, cache, acs, ces, tracts, bike, mode, overlay_raised, model,
                   gdf, main_error, mainFixed>>

\* Lines 48-60: run_ols and the saving of its summary.
MainOls ==
    /\ main_pc = "ols"
    /\ \E fits \in BOOLEAN :
          LET ret == RunOls(merged, "ces_score",
                            <<"bike_lane_density_sq_mi", "median_income", "vehicle_rate">>,
                            fits)
          IN /\ model' = ret.value
             /\ IF ret.value.kind = "raised"
                THEN /\ main_error' = Uncaught(ret.value.error, "run_ols")
                     /\ main_pc' = "crashed"
                     /\ printed' = printed \cup {"running_ols"}
                ELSE /\ main_pc' = "clusters"
                     /\ printed' = printed \cup {"running_ols"} \cup ret.printed \cup
                           (IF ret.value.kind = "model" THEN {"regression_saved"} ELSE {})
                     /\ UNCHANGED main_error
    /\ UNCHANGED <<fetched, cache, acs, ces, tracts, bike, mode, overlay_raised, merged,
                   gdf, mainFixed>>

\* cluster_cols, line 67.
MainClusterCols == <<"bike_lane_density_sq_mi", "ces_score", "vehicle_rate">>

\* Lines 65-68: add_clusters.
MainClusters ==
    /\ main_pc = "clusters"
    /\ \E labels \in Labellings(merged, MainClusterCols) :
          LET ret == AddClustersOf(merged, MainClusterCols, labels)
          IN IF ret.kind = "raised"
             THEN /\ main_error' = Uncaught(ret.error, "add_clusters")
                  /\ main_pc' = "crashed"
                  /\ printed' = printed \cup {"running_kmeans"}
                  /\ UNCHANGED merged
             ELSE /\ merged' = ret
                  /\ printed' = printed \cup {"running_kmeans"} \cup
                        (IF "cluster" \in ret.columns THEN {} ELSE {"cluster_not_enough"})
                  /\ main_pc' = "export"
                  /\ UNCHANGED main_error
    /\ UNCHANGED <<fetched, cache, acs, ces, tracts, bike, mode, overlay_raised, model,
                   gdf, mainFixed>>

\* Lines 73-75: merged[["GEOID", "cluster"] + cluster_cols].to_csv; the
\* selection raises KeyError when a column is absent.
MainExport ==
    /\ main_pc = "export"
    /\ IF ({"GEOID", "cluster"} \cup Range(MainClusterCols)) \subseteq merged.columns
       THEN /\ main_pc' = "attach"
            /\ printed' = printed \cup {"clusters_saved"}
            /\ UNCHANGED main_error
       ELSE /\ main_pc' = "crashed"
            /\ main_error' = Uncaught("KeyError", "main:74")
            /\ UNCHANGED printed
    /\ UNCHANGED <<fetched, cache, acs, ces, tracts, bike, mode, overlay_raised, merged,
                   model, gdf, mainFixed>>

\* Lines 80-83: attach_geometry.
MainAttach ==
    /\ main_pc = "attach"
    /\ gdf' = AttachGeometry(tracts, merged)
    /\ printed' = printed \cup {"generating_plots"}
    /\ main_pc' = "plots"
    /\ UNCHANGED <<fetched, cache, acs, ces, tracts, bike, mode, overlay_raised, merged,
                   model, main_error, mainFixed>>

\* Lines 87-122: the box plot reads bike_lane_density_sq_mi and ces_score
\* of merged; the maps return at once for an absent column.
MainPlots ==
    /\ main_pc = "plots"
    /\ IF {"bike_lane_density_sq_mi", "ces_score"} \subseteq merged.columns
       THEN /\ main_pc' = "complete"
            /\ printed' = printed \cup {"pipeline_complete"}
            /\ UNCHANGED main_error
       ELSE /\ main_pc' = "crashed"
            /\ main_error' = Uncaught("KeyError", "save_boxplot_comparison")
            /\ UNCHANGED printed
    /\ UNCHANGED <<fetched, cache, acs, ces, tracts, bike, mode, overlay_raised, merged,
                   model, gdf, mainFixed>>

MainNext ==
    \/ MainFetchAcs \/ MainLoadCes \/ MainLoadTracts \/ MainLoadBikeways
    \/ MainMerge \/ MainDensity \/ MainOls \/ MainClusters \/ MainExport
    \/ MainAttach \/ MainPlots

\* --------------------------------------------------- specifications

Init == BikeInit /\ NormIdle /\ MergeIdle /\ DeriveIdle /\ ClusterIdle /\ AcsIdle /\ MainIdle

Next == BikeNext

\* load_bikeways on every pair of input files.
Spec == Init /\ [][Next]_vars

InitNorm == NormInit /\ BikeIdle /\ MergeIdle /\ DeriveIdle /\ ClusterIdle /\ AcsIdle /\ MainIdle

\* The tract loader's normalisation on every raw identifier.
SpecNorm == InitNorm /\ [][NormNext]_vars

InitMerge == MergeInit /\ NormIdle /\ BikeIdle /\ DeriveIdle /\ ClusterIdle /\ AcsIdle /\ MainIdle

\* merge_layers on every combination of input tables.
SpecMerge == InitMerge /\ [][MergeNext]_vars

InitDerive == DeriveInit /\ NormIdle /\ BikeIdle /\ MergeIdle /\ ClusterIdle /\ AcsIdle /\ MainIdle

\* The three derived-field functions on every input table.
SpecDerive == InitDerive /\ [][DeriveNext]_vars

InitCluster == ClusterInit /\ NormIdle /\ BikeIdle /\ MergeIdle /\ DeriveIdle /\ AcsIdle /\ MainIdle

\* add_clusters on every input table, column choice and raw labelling.
SpecCluster == InitCluster /\ [][ClusterNext]_vars

InitAcs == AcsInit /\ NormIdle /\ BikeIdle /\ MergeIdle /\ DeriveIdle /\ ClusterIdle /\ MainIdle

\* Successive runs of the demographic stage of main, sharing the cache.
SpecAcs == InitAcs /\ [][AcsNext]_vars

InitMain == MainInit /\ NormIdle /\ DeriveIdle /\ ClusterIdle

\* One run of main over its sources.
SpecMain == InitMain /\ [][MainNext]_vars

\* ------------------------------------------------------------- claims

\* C1: the merged table has exactly one row per demographic row, in
\* order, none dropped and none duplicated.
C1_MergePreservesAnchorRows ==
    merge_pc = "merged" =>
        /\ Len(merged.rows) = Len(acs.rows)
        /\ \A i \in 1..Len(acs.rows) :
             merged.rows[i].GEOID = AsTypeStr(acs.rows[i].GEOID)


\* Whether the boundary file gives load_bikeways a non-empty tract table.
TractsKnown ==
    /\ tracts_file.readable
    /\ \E c \in tracts_file.columns : Upper(c) = "CT20" \/ ContainsGEOID(Upper(c))
    /\ tracts_file.rows # <<>>

\* The distinct identifiers of the boundary file, normalised.
KnownIds ==
    {TractNormalize(tracts_file.rows[i].raw) : i \in 1..Len(tracts_file.rows)}

\* One row for every distinct tract identifier, and zero miles for every
\* tract that has no piece in the join.
OneRowPerTract(df) ==
    /\ df.kind = "table"
    /\ {df.rows[i].GEOID : i \in 1..Len(df.rows)} = KnownIds
    /\ Len(df.rows) = Cardinality(KnownIds)
    /\ \A i \in 1..Len(df.rows) :
         (\A r \in joined : r.GEOID # df.rows[i].GEOID) => df.rows[i].bikeway_miles = 0

TotalMiles(df) == SumOver(1..Len(df.rows), [i \in 1..Len(df.rows) |-> df.rows[i].bikeway_miles])

InputMiles ==
    SumOver(1..Len(bike_gdf),
            [i \in 1..Len(bike_gdf) |-> Cardinality(bike_gdf[i].cells) * MilesPerMeterE9])

\* C2, as claimed: whenever tract boundaries are known, load_bikeways
\* returns exactly one row per distinct tract identifier, zero for the
\* tracts nothing was attributed to, on every path, the unavailable
\* infrastructure file included.
C2_EveryTractOnEveryPath ==
    (pc = "done" /\ TractsKnown) => OneRowPerTract(final_df)

\* C2, amended: once the infrastructure file has been read and tract
\* boundaries are known, load_bikeways returns exactly one row per distinct
\* tract identifier, zero for the tracts nothing was attributed to (exact
\* intersection, centroid fallback, nothing matched); when the
\* infrastructure file is unavailable it returns the empty table.
C2_EveryTractOnceBikewaysRead ==
    /\ (pc = "done" /\ TractsKnown /\ bike_file.readable) => OneRowPerTract(final_df)
    /\ (pc = "done" /\ ~bike_file.readable) => final_df = EmptyBikeTable

\* C2 witness: an exact join that leaves one tract at zero and gives
\* another its miles.
C2_Witness ==
    /\ pc = "done" /\ TractsKnown /\ bike_file.readable /\ mode = "exact"
    /\ final_df.kind = "table"
    /\ \E i, k \in 1..Len(final_df.rows) :
         final_df.rows[i].bikeway_miles = 0 /\ final_df.rows[k].bikeway_miles > 0

\* C3: in exact intersection mode the miles summed over all tracts never
\* exceed the total length of the input segments.
C3_ExactTotalNotInflated ==
    (pc = "done" /\ mode = "exact") => TotalMiles(final_df) <= InputMiles

\* C8: the centroid fallback is attempted exactly when the exact
\* intersection raised or matched nothing; an empty fallback gives every
\* tract at zero; once the join has started load_bikeways returns a table.
C8_FallbackPolicy ==
    LET joining == tracts.kind = "table" /\ tracts.rows # <<>>
        exactEmpty == OverlayIntersection(bike_gdf, tracts.rows) = {}
    IN /\ (pc = "fallback") => (overlay_raised \/ exactEmpty)
       /\ (pc \in {"aggregate", "done"} /\ joining) =>
            /\ fallback_tried <=> (overlay_raised \/ exactEmpty)
            /\ ~fallback_tried => mode = "exact"
       /\ (pc = "done" /\ joining) => final_df.kind = "table"
       /\ (pc = "done" /\ joining /\ fallback_tried
             /\ SjoinCentroidWithin(bike_gdf, tracts.rows) = {}) =>
            /\ OneRowPerTract(final_df)
            /\ \A i \in 1..Len(final_df.rows) : final_df.rows[i].bikeway_miles = 0

\* C8 witness: the overlay raised and the fallback attributed a segment.
C8_Witness ==
    /\ pc = "done" /\ overlay_raised /\ fallback_tried /\ mode = "centroid"
    /\ final_df.kind = "table"
    /\ \E i \in 1..Len(final_df.rows) : final_df.rows[i].bikeway_miles > 0

\* C11: in the table load_census_tracts returns, two rows that come from
\* distinct raw identifiers of the boundary file carry distinct normalized
\* identifiers.
C11_NormalizedIdsUnique ==
    (tracts # NotYet /\ tracts.kind = "table") =>
        \A i, j \in 1..Len(tracts.rows) :
            tracts_file.rows[i].raw # tracts_file.rows[j].raw =>
                tracts.rows[i].GEOID # tracts.rows[j].GEOID

\* The joined pieces of segment i.
PiecesOf(i) == {r \in joined : r.seg = i}

\* C15: in centroid-fallback mode every segment is attributed at most
\* once, to one tract identifier, with its full original length; a segment
\* whose centroid lies in no tract contributes nothing; the returned miles
\* are the lengths of the attributed segments.
C15_CentroidAttributesOnce ==
    (pc = "done" /\ mode = "centroid") =>
        /\ \A i \in 1..Len(bike_gdf) :
             /\ Cardinality(PiecesOf(i)) <= 1
             /\ \A r \in PiecesOf(i) :
                  /\ r.length_m = Cardinality(bike_gdf[i].cells)
                  /\ bike_gdf[i].centroid \in tracts.rows[r.row].GEOMETRY
             /\ (\A k \in 1..Len(tracts.rows) :
                    bike_gdf[i].centroid \notin tracts.rows[k].GEOMETRY) => PiecesOf(i) = {}
        /\ TotalMiles(final_df) <= InputMiles

CellOf(r, c) == IF c \in DOMAIN r THEN r[c] ELSE Missing

\* The denominator column of the derived field just computed.
DenominatorOf(field) == IF field = "bike_lane_density_sq_mi" THEN "tract_area_sq_mi" ELSE "population"

\* Its numerator column.
NumeratorOf(field) == IF field = "vehicle_rate" THEN "households_no_vehicle" ELSE "bikeway_miles"

Unusable(x) == x.k = "na" \/ (x.k = "num" /\ x.n = 0)

ReturnedMean(lbl) ==
    LET members == {i \in 1..Len(clustered.rows) :
                      /\ clustered.rows[i].cluster = Num(lbl)
                      /\ clustered.rows[i].ces_score.k = "num"}
    IN [sum |-> SumOver(members, [i \in members |-> clustered.rows[i].ces_score.n]),
        cnt |-> Cardinality(members)]

\* C7: in the table add_clusters returns, the mean ces_score of the rows
\* of a label is at least the mean of the rows of every higher label;
\* stated for the calls that cluster on ces_score, where the code ranks by
\* it.
C7_LabelsRankedByMeanBurden ==
    (cluster_pc = "clustered" /\ "cluster" \in clustered.columns
        /\ "ces_score" \in Range(cluster_cols)) =>
        \A a, b \in 0..(KClusters - 1) :
            LET ma == ReturnedMean(a)
                mb == ReturnedMean(b)
            IN (a < b /\ ma.cnt > 0 /\ mb.cnt > 0) => ma.sum * mb.cnt >= mb.sum * ma.cnt

C18_CacheRoundTripKeepsIdentifiers ==
    (acs_pc = "fetched" /\ api.outcome \in CaughtFailures /\ cache.exists) =>
        /\ Len(fetched.rows) = Len(cache.rows)
        /\ \A i \in 1..Len(cache.rows) :
             /\ AsTypeStr(fetched.rows[i].GEOID) = cache.rows[i].GEOID
             /\ Len(AsTypeStr(fetched.rows[i].GEOID)) = GeoidLen
             /\ \A c \in AcsColumns \ {"GEOID"} : fetched.rows[i][c] = cache.rows[i][c]

\* C19: add_clusters returns every input row exactly once, its original
\* columns unchanged, with at most one label, and a missing label for the
\* rows left out of the fit.
C19_ClustersKeepEveryRowOnce ==
    (cluster_pc = "clustered" /\ "cluster" \in clustered.columns) =>
        /\ Len(clustered.rows) = Len(cluster_df.rows)
        /\ \A i \in 1..Len(cluster_df.rows) :
             /\ \A c \in cluster_df.columns : clustered.rows[i][c] = cluster_df.rows[i][c]
             /\ i \notin FitIndex(cluster_df, cluster_cols) =>
                   clustered.rows[i].cluster = Missing

\* The boundary file is readable and has an identifier column.
TractFileGood ==
    /\ tracts_file.readable
    /\ \E c \in tracts_file.columns : Upper(c) = "CT20" \/ ContainsGEOID(Upper(c))

\* Every source is either unavailable or complete: the API fails or
\* answers with enough tracts, the environmental file is unreadable or
\* read, the infrastructure file is unreadable or read.
UnavailableOrComplete ==
    /\ api.outcome \in CaughtFailures \/ (api.outcome = "ok" /\ Len(api.data) >= MinFitRows)
    /\ ces_file.kind \in {"missing", "csv"}
    /\ TractFileGood

\* C12: whatever sources are unavailable (API, cache, environmental file,
\* infrastructure file), main never ends in an uncaught exception.
C12_UnavailabilityNeverFatal ==
    (main_pc # "idle" /\ UnavailableOrComplete) => main_pc # "crashed"

\* C13: when every source is read but holds fewer than 20 tracts, so that
\* regression and clustering are skipped, main never ends in an uncaught
\* exception.
C13_InsufficientDataNeverFatal ==
    (main_pc # "idle" /\ api.outcome = "ok" /\ Len(api.data) < MinFitRows
        /\ ces_file.kind = "csv" /\ TractFileGood /\ bike_file.readable) =>
        main_pc # "crashed"

\* C16: a degraded result comes with a message describing it: centroid
\* lengths, all-zero lengths, the cache instead of the API, the empty
\* demographic table, an empty table for a file or sheet that could not
\* be read, a source the merge skipped; and exact lengths are never
\* flagged as approximate.
C16_DegradationsAreReported ==
    /\ (bike # NotYet /\ mode = "centroid") => "centroid_fallback" \in printed
    /\ (bike # NotYet /\ mode = "all_zero") => "no_overlap" \in printed
    /\ (bike # NotYet /\ mode = "exact") => "centroid_fallback" \notin printed
    /\ (bike # NotYet /\ ~bike_file.readable) => "bikeways_read_error" \in printed
    /\ (fetched # NotYet /\ api.outcome \in CaughtFailures) =>
          ("backup_loaded" \in printed \/ "no_backup_warning" \in printed)
    /\ (tracts # NotYet /\ ~tracts_file.readable) => "tracts_read_error" \in printed
    /\ (ces # NotYet /\ ces_file.kind \in {"missing", "excel_no_sheet"}) =>
          "ces_read_error" \in printed
    /\ (merged # NotYet /\ (Empty(ces) \/ Empty(bike) \/ Empty(tracts))) =>
          \E m \in MergeLayersPrinted(ces, bike, tracts) : m # "merging_layers"

\* The columns of the regression main runs.
OlsColumns == {"ces_score", "bike_lane_density_sq_mi", "median_income", "vehicle_rate"}

\* The rows of merged that are complete in the columns cols; none when a
\* column is absent.
CompleteRows(cols) ==
    IF cols \subseteq merged.columns
    THEN Cardinality({i \in 1..Len(merged.rows) :
                        \A c \in cols : merged.rows[i][c].k = "num"})
    ELSE 0

\* C17: with fewer than 20 complete rows, an absent column included,
\* run_ols returns no model and add_clusters returns its input without a
\* label column, each with its diagnostic and without raising; with 20 or
\* more the model is fitted (or its failure reported) and the rows are
\* labelled.
C17_NoFitUnderTwentyRows ==
    /\ (main_pc = "crashed") => main_error.at \notin {"run_ols", "add_clusters"}
    /\ (main_pc = "clusters" /\ CompleteRows(OlsColumns) < MinFitRows) =>
          (model.kind = "none" /\ "ols_not_enough" \in printed)
    /\ (main_pc = "clusters" /\ CompleteRows(OlsColumns) >= MinFitRows) =>
          (model.kind = "model" \/ "regression_failed" \in printed)
    /\ (main_pc = "export") =>
          /\ CompleteRows(Range(MainClusterCols)) < MinFitRows =>
                ("cluster" \notin merged.columns /\ "cluster_not_enough" \in printed)
          /\ CompleteRows(Range(MainClusterCols)) >= MinFitRows =>
                "cluster" \in merged.columns

\* A 10-digit identifier '6037dddddd': a GEOID whose leading zero was lost.
LostLeadingZero(raw) ==
    Len(raw) = GeoidLen - 1 /\ IsDigits(raw) /\ StartsWith(raw, <<"6", "0", "3", "7">>)

\* C14: both loaders turn a 10-digit identifier '6037dddddd' into the
\* 11-digit '06037dddddd', so the tract carries one identifier in every
\* table.
C14_LeadingZeroRestoredByBothLoaders ==
    (norm_pc = "ces" /\ LostLeadingZero(raw_id)) =>
        /\ ces_geoid = <<"0">> \o raw_id
        /\ CesKept(ces_geoid)
        /\ geoid_once = <<"0">> \o raw_id
        /\ geoid_once = ces_geoid

\* The raw identifier shapes C4 names: a digit code of at most six digits,
\* a ten-digit code that lost its leading zero, a canonical code, each
\* with or without a fractional suffix.
IsClaimedShape(raw) ==
    LET code == SplitDotFirst(raw)
    IN /\ IsDigits(code)
       /\ \/ Len(code) \in 1..TractCodeWidth
          \/ Len(code) = GeoidLen - 1 /\ StartsWith(code, <<"6", "0", "3", "7">>)
          \/ IsCanonical(code)

\* C4: every normalised tract identifier is an 11-character code that
\* starts with 06037, for every claimed raw shape.
C4_NormalizedIsCanonical ==
    (norm_pc # "raw" /\ IsClaimedShape(raw_id)) =>
        Len(geoid_once) = GeoidLen /\ StartsWith(geoid_once, CountyPrefix)

IsString(s) ==
    /\ DOMAIN s = 1..Len(s)
    /\ \A i \in 1..Len(s) : s[i] \in BodyChars \cup {"3", "6", "7", "."}

\* C5: normalisation returns a string for every input, is idempotent, and
\* leaves an already-canonical identifier unchanged.
C5_NormalizeIdempotentTotal ==
    /\ norm_pc # "raw" => IsString(geoid_once) /\ Len(geoid_once) >= TractCodeWidth
    /\ norm_pc = "twice" => geoid_twice = geoid_once
    /\ (norm_pc # "raw" /\ IsCanonical(raw_id)) => geoid_once = raw_id

\* C5 witness: a fractional-suffixed raw identifier normalised twice.
C5_Witness ==
    /\ norm_pc = "twice"
    /\ Len(SplitDotFirst(raw_id)) < Len(raw_id)
    /\ geoid_once # raw_id
    /\ geoid_twice = geoid_once

====
